---- MODULE Spec2Model ----
(***************************************************************************)
(* A model of utd (src/main.rs): the task store kept in the file           *)
(* ".utd.json", the save through ".temp" + rename, and the mutations       *)
(* new_entry, delete_entry, alter_tasks, remove_completed and              *)
(* make_ids_sequential.                                                    *)
(*                                                                         *)
(* A file is a sequence of units.  serde_json::to_string_pretty writes a   *)
(* "[" unit, one unit per entry, a "]" unit, and writeln! adds the "nl"    *)
(* unit.  A write puts one unit at the descriptor's offset; no open of     *)
(* the program truncates, so units beyond the last one written stay.       *)
(***************************************************************************)
EXTENDS Integers, Sequences, FiniteSets, TLC

\* ------------------------------------------------------------------ bounds
MaxEntries == 2       \* entries in the store
MaxId == 3            \* largest id an Add may reach
AddMaxEntries == 5    \* entries in the store of SpecAdd
AddMaxId == 6         \* largest id an Add may reach in SpecAdd
PrioMaxEntries == 3   \* entries in the store of SpecPrio
ShowMaxEntries == 3   \* entries in the store of SpecShow
MainMaxEntries == 2   \* entries in the store of SpecMain
RaceMaxEntries == 1   \* entries in the store of SpecRace
FlagsMaxEntries == 3  \* entries in the store of SpecFlags

\* ------------------------------------------------------- character strings
\* A string is a tuple of one-character strings.
Digits == <<"0", "1", "2", "3", "4", "5", "6", "7", "8", "9">>

IsDigit(c) == \E i \in 1..10 : Digits[i] = c

DigitVal(c) == (CHOOSE i \in 1..10 : Digits[i] = c) - 1

Letters == {"a", "b", "c", "d", "e", "f", "g", "h", "i", "j", "k", "l", "m",
            "n", "o", "p", "q", "r", "s", "t", "u", "v", "w", "x", "y", "z"}

\* \w of the regex crate, restricted to the ASCII characters of the model
IsWord(c) == c \in Letters \/ IsDigit(c) \/ c = "_"

RECURSIVE DigitsValue(_, _)
\* the accumulation loop of from_str_radix; the id strings of the model are
\* too short to reach the overflow checks
DigitsValue(s, acc) ==
  IF s = <<>> THEN acc ELSE DigitsValue(Tail(s), acc * 10 + DigitVal(Head(s)))

AllDigits(s) == \A k \in 1..Len(s) : IsDigit(s[k])

\* str::parse::<i64>(): an optional sign, then at least one digit
ParseI64(s) ==
  IF s = <<>> THEN [ok |-> FALSE, val |-> 0]
  ELSE LET signed == Head(s) \in {"+", "-"}
           body == IF signed THEN Tail(s) ELSE s
       IN IF body = <<>> \/ ~AllDigits(body) THEN [ok |-> FALSE, val |-> 0]
          ELSE [ok |-> TRUE,
                val |-> IF Head(s) = "-" THEN 0 - DigitsValue(body, 0)
                        ELSE DigitsValue(body, 0)]

\* str::parse::<usize>(): only "+" is accepted as a sign
ParseUsize(s) ==
  IF s = <<>> THEN [ok |-> FALSE, val |-> 0]
  ELSE LET body == IF Head(s) = "+" THEN Tail(s) ELSE s
       IN IF body = <<>> \/ ~AllDigits(body) THEN [ok |-> FALSE, val |-> 0]
          ELSE [ok |-> TRUE, val |-> DigitsValue(body, 0)]

\* ------------------------------------------------------------ entity model
PriorityLevel == {"low", "normal", "high"}

\* clock readings SystemTime::now() may return while an entry is created
Instants == {100, 200, 300}

TaskNew(title, tags, is_task, id, priority, ts) ==
  [tags |-> tags, is_task |-> is_task, id |-> id, priority |-> priority,
   name |-> title, in_progress |-> FALSE, is_done |-> FALSE,
   timestamp |-> ts]

\* ----------------------------------------------------------- tag extractor
RECURSIVE WordRunEnd(_, _)
\* the last index of the run of word characters that starts at index j
WordRunEnd(s, j) ==
  IF j + 1 <= Len(s) /\ IsWord(s[j + 1]) THEN WordRunEnd(s, j + 1) ELSE j

\* RE = (@.\w+) matches at index i: "@", any one character but a newline,
\* then one or more word characters
MatchesAt(s, i) ==
  /\ i + 2 <= Len(s)
  /\ s[i] = "@"
  /\ s[i + 1] # "\n"
  /\ IsWord(s[i + 2])

RECURSIVE FindIter(_, _)
\* RE.find_iter: the leftmost non-overlapping matches from index i on, each
\* as <<first, last>>
FindIter(s, i) ==
  IF i > Len(s) THEN <<>>
  ELSE IF MatchesAt(s, i)
       THEN <<(<<i, WordRunEnd(s, i + 2)>>)>> \o FindIter(s, WordRunEnd(s, i + 2) + 1)
       ELSE FindIter(s, i + 1)

RECURSIVE ReplaceAll(_, _, _)
\* RE.replace_all(entry_name, " ")
ReplaceAll(s, ms, i) ==
  IF i > Len(s) THEN <<>>
  ELSE IF ms # <<>> /\ Head(ms)[1] = i
       THEN <<" ">> \o ReplaceAll(s, Tail(ms), Head(ms)[2] + 1)
       ELSE <<s[i]>> \o ReplaceAll(s, ms, i + 1)

RECURSIVE JoinTags(_, _)
\* tags.join(" ")
JoinTags(s, ms) ==
  IF ms = <<>> THEN <<>>
  ELSE LET m == SubSeq(s, Head(ms)[1], Head(ms)[2])
       IN IF Tail(ms) = <<>> THEN m ELSE m \o <<" ">> \o JoinTags(s, Tail(ms))

Title(entry_name) == ReplaceAll(entry_name, FindIter(entry_name, 1), 1)

Tags(entry_name) == JoinTags(entry_name, FindIter(entry_name, 1))

\* --------------------------------------------------------------- the files
NoEntry == TaskNew(<<>>, <<>>, FALSE, 0, "normal", 0)

Unit(tok, e) == [tok |-> tok, e |-> e]

RECURSIVE EntryUnits(_)
EntryUnits(tasks) ==
  IF tasks = <<>> THEN <<>>
  ELSE <<Unit("e", Head(tasks))>> \o EntryUnits(Tail(tasks))

\* writeln!(file, "{}", serde_json::to_string_pretty(tasks))
Serialize(tasks) ==
  <<Unit("[", NoEntry)>> \o EntryUnits(tasks)
    \o <<Unit("]", NoEntry), Unit("nl", NoEntry)>>

\* contents.is_empty() => "[]"; serde_json::from_str: an array of entries,
\* then nothing but whitespace
FromStr(c) ==
  IF c = <<>> THEN [ok |-> TRUE, tasks |-> <<>>]
  ELSE LET closes == {k \in 1..Len(c) : c[k].tok = "]"}
       IN IF closes = {} \/ c[1].tok # "["
          THEN [ok |-> FALSE, tasks |-> <<>>]
          ELSE LET k == CHOOSE x \in closes : \A y \in closes : x <= y
               IN IF /\ \A j \in 2..(k - 1) : c[j].tok = "e"
                     /\ \A j \in (k + 1)..Len(c) : c[j].tok = "nl"
                  THEN [ok |-> TRUE, tasks |-> [j \in 1..(k - 2) |-> c[j + 1].e]]
                  ELSE [ok |-> FALSE, tasks |-> <<>>]

\* ---------------------------------------------------------- the file system
Procs == {1, 2}

Paths == {"utd", "temp"}        \* data_dir()/.utd.json, data_dir()/.temp

\* an inode per directory entry and one per open descriptor is enough
Inodes == 1..(Cardinality(Paths) + Cardinality(Procs))

NoFiles ==
  [dir |-> [q \in Paths |-> 0], data |-> [i \in Inodes |-> <<>>]]

Named(f) == {f.dir[q] : q \in Paths} \ {0}

\* an inode no path and no descriptor refers to is gone
Reclaim(f, open) ==
  [f EXCEPT !.data = [i \in Inodes |->
                        IF i \in Named(f) \cup open THEN f.data[i] ELSE <<>>]]

\* FsOpen with truncate(true): the file is empty after the open
FsOpenTruncates(f, path, open) ==
  IF f.dir[path] # 0
  THEN [fs |-> [f EXCEPT !.data[f.dir[path]] = <<>>], ino |-> f.dir[path]]
  ELSE LET free == Inodes \ (Named(f) \cup open)
           i == CHOOSE x \in free : \A y \in free : x <= y
       IN [fs |-> [f EXCEPT !.dir[path] = i, !.data[i] = <<>>], ino |-> i]

\* OpenOptions::new().create(true).write(true).open(path): the file is
\* created when absent and is not truncated when present; offset 0
FsOpen(f, path, open) ==
  IF f.dir[path] # 0 THEN [fs |-> f, ino |-> f.dir[path]]
  ELSE LET free == Inodes \ (Named(f) \cup open)
           i == CHOOSE x \in free : \A y \in free : x <= y
       IN [fs |-> [f EXCEPT !.dir[path] = i, !.data[i] = <<>>], ino |-> i]

\* one write at offset pos: the unit replaces what is there or extends the file
FsWrite(f, ino, pos, u) ==
  IF pos < Len(f.data[ino])
  THEN [f EXCEPT !.data[ino][pos + 1] = u]
  ELSE [f EXCEPT !.data[ino] = Append(f.data[ino], u)]

\* FsRename with a rename that leaves an existing target alone
FsRenameNoClobber(f, from, to) ==
  IF f.dir[from] = 0 THEN [ok |-> FALSE, fs |-> f]
  ELSE IF f.dir[to] # 0
       THEN [ok |-> TRUE, fs |-> [f EXCEPT !.dir[from] = 0]]
       ELSE [ok |-> TRUE,
             fs |-> [f EXCEPT !.dir[to] = f.dir[from], !.dir[from] = 0]]

\* std::fs::rename(from, to): fails when from does not exist; otherwise to
\* names from's inode and from is gone
FsRename(f, from, to) ==
  IF f.dir[from] = 0 THEN [ok |-> FALSE, fs |-> f]
  ELSE [ok |-> TRUE, fs |-> [f EXCEPT !.dir[to] = f.dir[from], !.dir[from] = 0]]

\* what a reader of the canonical file gets
Canonical(f) == IF f.dir["utd"] = 0 THEN <<>> ELSE f.data[f.dir["utd"]]

\* state_file_contents() once the file o is open: read it all, parse it
Parsed(g, r) == [ok |-> r.ok, tasks |-> r.tasks, fs |-> g]

ReadAll(o) == Parsed(o.fs, FromStr(o.fs.data[o.ino]))

\* state_file_contents(): open (creating) the canonical file, read it all,
\* parse it
StateFileContents(f, open) == ReadAll(FsOpen(f, "utd", open))

\* ---------------------------------------------------------------- display
\* Task::priority_score: Low < Normal < High
PriorityScore(t) ==
  CASE t.priority = "low" -> 1
    [] t.priority = "normal" -> 2
    [] t.priority = "high" -> 3

\* Task::timestamp: the instant of creation
Timestamp(t) == t.timestamp

\* the orders of n entries
Orders(n) ==
  {q \in [1..n -> 1..n] : \A i, j \in 1..n : i # j => q[i] # q[j]}

\* the orders q of the entries with non-decreasing keys
Ascending(keys) ==
  {q \in Orders(Len(keys)) :
     \A i, j \in 1..Len(keys) : i < j => keys[q[i]] <= keys[q[j]]}

\* tasks.sort_unstable_by_key(key), keys[k] the key of tasks[k]: some
\* ascending order; the order of the entries with equal keys is not specified
SortUnstableByKey(tasks, keys) ==
  {[k \in 1..Len(tasks) |-> tasks[q[k]]] : q \in Ascending(keys)}

\* |e| e.timestamp() of every entry
Timestamps(tasks) == [k \in 1..Len(tasks) |-> Timestamp(tasks[k])]

\* |e| e.priority_score() of every entry
PriorityScores(tasks) == [k \in 1..Len(tasks) |-> PriorityScore(tasks[k])]

\* tasks.reverse()
Reverse(tasks) == [k \in 1..Len(tasks) |-> tasks[Len(tasks) + 1 - k]]

\* OrderTasks without tasks.reverse()
OrderTasksAscending(tasks, sort) ==
  IF sort = "age" THEN SortUnstableByKey(tasks, Timestamps(tasks))
  ELSE SortUnstableByKey(tasks, PriorityScores(tasks))

\* the match of order_tasks: what it may return for the loaded tasks
OrderTasks(tasks, sort) ==
  IF sort = "age" THEN SortUnstableByKey(tasks, Timestamps(tasks))
  ELSE {Reverse(t) : t \in SortUnstableByKey(tasks, PriorityScores(tasks))}

\* ------------------------------------------------------------ the mutations
None == [some |-> FALSE, v |-> <<>>]

Some(v) == [some |-> TRUE, v |-> v]

Max(S) == CHOOSE x \in S : \A y \in S : x >= y

\* DeleteFilter with the test of the filter inverted
DeleteFilterInverted(tasks, num) == SelectSeq(tasks, LAMBDA t : t.id = num)

\* the closure of delete_entry's filter_map
DeleteFilter(tasks, num) == SelectSeq(tasks, LAMBDA t : t.id # num)

RECURSIVE DeleteLoop(_, _)
\* the loop of delete_entry: i.parse()? then the filter
DeleteLoop(tasks, ids) ==
  IF ids = <<>> THEN [ok |-> TRUE, tasks |-> tasks]
  ELSE LET num == ParseI64(Head(ids))
       IN IF ~num.ok THEN [ok |-> FALSE, tasks |-> tasks]
          ELSE DeleteLoop(DeleteFilter(tasks, num.val), Tail(ids))

\* AlterMap where Started sets in_progress instead of flipping it
AlterMapStartSets(tasks, i, state) ==
  [k \in 1..Len(tasks) |->
     IF tasks[k].id = i
     THEN IF state = "Started"
          THEN [tasks[k] EXCEPT !.in_progress = TRUE, !.is_done = FALSE]
          ELSE [tasks[k] EXCEPT !.in_progress = FALSE, !.is_done = TRUE]
     ELSE tasks[k]]

\* AlterMap where Completed builds the entry anew, with the default priority
AlterMapRebuilds(tasks, i, state) ==
  [k \in 1..Len(tasks) |->
     IF tasks[k].id = i
     THEN IF state = "Started"
          THEN [tasks[k] EXCEPT !.in_progress = ~tasks[k].in_progress,
                                !.is_done = FALSE]
          ELSE [TaskNew(tasks[k].name, tasks[k].tags, tasks[k].is_task,
                        tasks[k].id, "normal", tasks[k].timestamp)
                  EXCEPT !.is_done = TRUE]
     ELSE tasks[k]]

\* AlterMap where Completed leaves in_progress as it is
AlterMapCheckKeeps(tasks, i, state) ==
  [k \in 1..Len(tasks) |->
     IF tasks[k].id = i
     THEN IF state = "Started"
          THEN [tasks[k] EXCEPT !.in_progress = ~tasks[k].in_progress,
                                !.is_done = FALSE]
          ELSE [tasks[k] EXCEPT !.is_done = TRUE]
     ELSE tasks[k]]

\* AlterMap where Started leaves is_done as it is
AlterMapStartKeepsDone(tasks, i, state) ==
  [k \in 1..Len(tasks) |->
     IF tasks[k].id = i
     THEN IF state = "Started"
          THEN [tasks[k] EXCEPT !.in_progress = ~tasks[k].in_progress]
          ELSE [tasks[k] EXCEPT !.in_progress = FALSE, !.is_done = TRUE]
     ELSE tasks[k]]

\* the closure of alter_tasks's map; ids of the store are never negative,
\* so `f.id as usize` is f.id
AlterMap(tasks, i, state) ==
  [k \in 1..Len(tasks) |->
     IF tasks[k].id = i
     THEN IF state = "Started"
          THEN [tasks[k] EXCEPT !.in_progress = ~tasks[k].in_progress,
                                !.is_done = FALSE]
          ELSE [tasks[k] EXCEPT !.in_progress = FALSE, !.is_done = TRUE]
     ELSE tasks[k]]

RECURSIVE AlterLoop(_, _, _)
\* the loop of alter_tasks: i.parse()? then the map
AlterLoop(tasks, ids, state) ==
  IF ids = <<>> THEN [ok |-> TRUE, tasks |-> tasks]
  ELSE LET i == ParseUsize(Head(ids))
       IN IF ~i.ok THEN [ok |-> FALSE, tasks |-> tasks]
          ELSE AlterLoop(AlterMap(tasks, i.val, state), Tail(ids), state)

\* RemoveDone that removes the completed tasks and keeps the notes
RemoveDoneTasks(tasks) == SelectSeq(tasks, LAMBDA t : ~(t.is_done /\ t.is_task))

\* the filter_map of remove_completed
RemoveDone(tasks) == SelectSeq(tasks, LAMBDA t : ~t.is_done)

\* Renumbered with the index in place of index + 1
RenumberedFromZero(tasks) ==
  [k \in 1..Len(tasks) |-> [tasks[k] EXCEPT !.id = k - 1]]

\* the loop of make_ids_sequential
Renumbered(tasks) == [k \in 1..Len(tasks) |-> [tasks[k] EXCEPT !.id = k]]

\* BaseId with the number of entries in place of the largest id
BaseIdCount(tasks) == Len(tasks)

\* let mut len = max id or 0
BaseId(tasks) ==
  IF tasks = <<>> THEN 0 ELSE Max({tasks[k].id : k \in 1..Len(tasks)})

\* priority.pop_front().unwrap_or(&PriorityLevel::Normal) for the k-th entry
\* of a call that starts with queue vd
PoppedPriority(vd, k) == IF k <= Len(vd) THEN vd[k] ELSE "normal"

\* NewEntries with len incremented once, before the loop
NewEntriesOneId(base, list, is_task, vd, stamps) ==
  [k \in 1..Len(list) |->
     TaskNew(Title(list[k]), Tags(list[k]), is_task, base + 1,
             PoppedPriority(vd, k), stamps[k])]

\* the entries entry_adder creates from list, with the clock readings stamps
NewEntries(base, list, is_task, vd, stamps) ==
  [k \in 1..Len(list) |->
     TaskNew(Title(list[k]), Tags(list[k]), is_task, base + k,
             PoppedPriority(vd, k), stamps[k])]

\* EntryAdder with the loaded entries appended to the new ones
EntryAdderPrepends(tasks, list, is_task, vd, stamps) ==
  [tasks |-> NewEntries(BaseId(tasks), list, is_task, vd, stamps) \o tasks,
   queue |-> IF Len(list) >= Len(vd) THEN <<>>
             ELSE SubSeq(vd, Len(list) + 1, Len(vd))]

\* EntryAdder with a copy of the priority queue: the caller's is not consumed
EntryAdderKeepsQueue(tasks, list, is_task, vd, stamps) ==
  [tasks |-> tasks \o NewEntries(BaseId(tasks), list, is_task, vd, stamps),
   queue |-> vd]

\* entry_adder up to tasks.append: the new collection and what is left of
\* the priority queue
EntryAdder(tasks, list, is_task, vd, stamps) ==
  [tasks |-> tasks \o NewEntries(BaseId(tasks), list, is_task, vd, stamps),
   queue |-> IF Len(list) >= Len(vd) THEN <<>>
             ELSE SubSeq(vd, Len(list) + 1, Len(vd))]

\* default_vec and vd of new_entry
PriorityQueue(add, note, priority) ==
  IF priority.some THEN priority.v
  ELSE [k \in 1..(IF add.some THEN Len(add.v) ELSE Len(note.v)) |-> "normal"]

\* the in-memory transformation of the mutations that save with update_file
Transform(op, tasks) ==
  CASE op.kind = "delete" -> DeleteLoop(tasks, op.ids)
    [] op.kind = "begin" -> AlterLoop(tasks, op.ids, "Started")
    [] op.kind = "check" -> AlterLoop(tasks, op.ids, "Completed")
    [] op.kind = "tidy" -> [ok |-> TRUE, tasks |-> RemoveDone(tasks)]
    [] op.kind = "reset" -> [ok |-> TRUE, tasks |-> Renumbered(tasks)]

\* --------------------------------------------------------------- a process
\* One invocation runs one mutation.  pc is the next step of its code:
\*   new_entry:    state_file -> entry_adder -> write ... (once per batch)
\*   the others:   load -> open_temp -> write ... -> rename
\* and it ends in "ok" (the handler returned Ok) or "err" (it returned Err).
NoOp ==
  [priority |-> None, ids |-> <<>>, stamps |-> <<>>, add |-> None,
   note |-> None, kind |-> "none"]

Idle ==
  [is_task |-> FALSE, pos |-> 0, vd |-> <<>>, op |-> NoOp, pc |-> "idle",
   fd |-> 0, buf |-> <<>>, loaded |-> FALSE, pre |-> <<>>, post |-> <<>>]

Started(op) ==
  [Idle EXCEPT !.op = op,
               !.pc = IF op.kind = "add" THEN "state_file" ELSE "load",
               !.is_task = op.add.some,
               !.vd = IF op.kind = "add"
                      THEN PriorityQueue(op.add, op.note, op.priority)
                      ELSE <<>>]

Finished(p) == p.pc \in {"ok", "err"}

OpenBy(p) == IF p.fd = 0 THEN {} ELSE {p.fd}

\* the clock readings of the batch the process is adding
BatchStamps(p) ==
  LET n == IF p.op.add.some THEN Len(p.op.add.v) ELSE 0
  IN IF p.is_task THEN SubSeq(p.op.stamps, 1, n)
     ELSE SubSeq(p.op.stamps, n + 1, n + Len(p.op.note.v))

\* the process holds the descriptor o and goes on at pc
Opened(p, o, pc) ==
  [fs |-> o.fs, p |-> [p EXCEPT !.fd = o.ino, !.pos = 0, !.pc = pc]]

\* new_entry: &mut state_file(&path, false, true)? opens the canonical file
\* for writing before entry_adder runs
StateFile(f, p, others) ==
  Opened(p, FsOpen(f, "utd", others), "entry_adder")

\* the texts of the batch the process is adding
BatchList(p) == IF p.is_task THEN p.op.add.v ELSE p.op.note.v

\* entry_adder after tasks.append, r being what EntryAdder has made of the
\* loaded collection
AdderMade(p, l, r) ==
  [fs |-> l.fs,
   p |-> [p EXCEPT !.pc = "write", !.pos = 0, !.vd = r.queue,
                   !.buf = Serialize(r.tasks), !.loaded = TRUE,
                   !.pre = IF p.loaded THEN p.pre ELSE l.tasks,
                   !.post = r.tasks]]

\* entry_adder after state_file_contents()? has given l
AdderLoaded(p, l) ==
  IF ~l.ok
  THEN [fs |-> l.fs, p |-> [p EXCEPT !.pc = "err", !.fd = 0]]
  ELSE AdderMade(p, l, EntryAdder(l.tasks, BatchList(p), p.is_task, p.vd,
                                  BatchStamps(p)))

\* entry_adder up to write_to_file: load, create the entries, serialize
AdderLoad(f, p, others) ==
  AdderLoaded(p, StateFileContents(f, others \cup OpenBy(p)))

\* Transformed without the ? on the parse of an id: what the loop has made
\* so far is saved
TransformedOnError(p, l, t) ==
  IF ~l.ok
  THEN [fs |-> l.fs, p |-> [p EXCEPT !.pc = "err"]]
  ELSE [fs |-> l.fs,
        p |-> [p EXCEPT !.pc = "open_temp", !.buf = Serialize(t.tasks),
                        !.loaded = TRUE, !.pre = l.tasks, !.post = t.tasks]]

\* the handler after the load gave l and the transformation gave t: either
\* ? returns before update_file
Transformed(p, l, t) ==
  IF ~l.ok \/ ~t.ok
  THEN [fs |-> l.fs, p |-> [p EXCEPT !.pc = "err"]]
  ELSE [fs |-> l.fs,
        p |-> [p EXCEPT !.pc = "open_temp", !.buf = Serialize(t.tasks),
                        !.loaded = TRUE, !.pre = l.tasks, !.post = t.tasks]]

\* the handler after state_file_contents() has given l
Loaded(p, l) == Transformed(p, l, Transform(p.op, l.tasks))

\* delete_entry, alter_tasks, remove_completed, make_ids_sequential up to
\* update_file: load, transform in memory
Load(f, p, others) == Loaded(p, StateFileContents(f, others))

\* update_file: open .temp (create, write; no truncate)
OpenTemp(f, p, others) == Opened(p, FsOpen(f, "temp", others), "write")

\* where the code goes after write_to_file
AfterWrite(p) ==
  IF p.op.kind = "add"
  THEN IF p.is_task /\ p.op.note.some
       THEN [p EXCEPT !.fd = 0, !.pos = 0, !.buf = <<>>, !.is_task = FALSE,
                      !.pc = "state_file"]
       ELSE [p EXCEPT !.fd = 0, !.pos = 0, !.buf = <<>>, !.pc = "ok"]
  ELSE [p EXCEPT !.pos = Len(p.buf), !.pc = "rename"]

\* write_to_file, one unit of the serialized collection at a time
WriteUnit(f, p, others) ==
  [fs |-> FsWrite(f, p.fd, p.pos, p.buf[p.pos + 1]),
   p |-> IF p.pos + 1 = Len(p.buf) THEN AfterWrite(p)
         ELSE [p EXCEPT !.pos = p.pos + 1]]

\* update_file after rename has given r: temp is dropped
Renamed(p, r) ==
  [fs |-> r.fs,
   p |-> [p EXCEPT !.fd = 0, !.pos = 0, !.buf = <<>>,
                   !.pc = IF r.ok THEN "ok" ELSE "err"]]

\* update_file: rename .temp over .utd.json, then temp is dropped
Rename(f, p, others) == Renamed(p, FsRename(f, "temp", "utd"))

\* after a step the inodes nobody refers to any more are gone
Stepped(r, others) ==
  [fs |-> Reclaim(r.fs, others \cup OpenBy(r.p)), p |-> r.p]

\* the next step of a process that has not finished
Step(f, p, others) ==
  Stepped(CASE p.pc = "state_file" -> StateFile(f, p, others)
            [] p.pc = "entry_adder" -> AdderLoad(f, p, others)
            [] p.pc = "load" -> Load(f, p, others)
            [] p.pc = "open_temp" -> OpenTemp(f, p, others)
            [] p.pc = "write" -> WriteUnit(f, p, others)
            [] p.pc = "rename" -> Rename(f, p, others),
          others)

RECURSIVE Run(_, _)
\* the handler goes on after a step that has given r
Resumed(r) == Run(r.fs, r.p)

\* a handler run to its return by a process that is alone
Run(f, p) ==
  IF Finished(p) THEN [fs |-> f, p |-> p] ELSE Resumed(Step(f, p, {}))

\* ------------------------------------------------------------------- state
VARIABLES
  fs,      \* the data directory: paths, inodes and their contents
  procs,   \* the invocations that run step by step (SpecCrash, SpecRace)
  last,    \* the handler that returned last and the collection it loaded
  hist,    \* the largest id an Add has assigned since the last Renumber
  shown,   \* what the last display step handed to the presentation (SpecShow)
  main     \* the invocation whose main runs action by action (SpecMain)

vars == <<fs, procs, last, hist, shown, main>>

Stored(f) == FromStr(Canonical(f)).tasks

NoLast == [ok |-> TRUE, op |-> NoOp, pre |-> <<>>, hi |-> 0]

\* nothing has been displayed
NoShown == [ok |-> TRUE, tasks |-> <<>>, sort |-> None]

\* args of an invocation that requests nothing
NoArgs ==
  [priority |-> None, sort |-> None, add |-> None, note |-> None,
   delete |-> None, begin |-> None, check |-> None, tidy |-> FALSE,
   re_set_ids |-> FALSE]

\* no invocation runs action by action
NoMain == [args |-> NoArgs, stage |-> "idle", env |-> "fine", ran |-> <<>>]

Init ==
  /\ fs = NoFiles
  /\ procs = [p \in Procs |-> Idle]
  /\ last = NoLast
  /\ hist = 0
  /\ shown = NoShown
  /\ main = NoMain

\* ------------------------------------------------------------- the inputs
\* texts given to --add / --note
Text == <<"m", " ", "@", "h", "i">>

Plain == <<"n">>

\* one or two of the same text
Texts == {<<Text>>, <<Text, Text>>}

\* strings given to --delete / --begin / --check
IdStrings == {<<"1">>, <<"2">>, <<"x">>}

SeqsUpTo(S, lo, hi) == UNION {[1..n -> S] : n \in lo..hi}

\* one or two of them, and some signed ones
IdLists ==
  SeqsUpTo(IdStrings, 1, 2)
    \cup {<<(<<"+", "1">>)>>, <<(<<"-", "1">>)>>, <<(<<"1">>), (<<"-", "1">>)>>}

SingleIds(n) == {<<(<<Digits[k + 1]>>)>> : k \in 1..n}

Min(a, b) == IF a <= b THEN a ELSE b

Op(kind, add, note, priority, ids, stamps) ==
  [priority |-> priority, ids |-> ids, stamps |-> stamps, add |-> add,
   note |-> note, kind |-> kind]

\* args.add / args.note: None when the flag is absent
Listed(list) == IF list = <<>> THEN None ELSE Some(list)

Created(op) ==
  (IF op.add.some THEN Len(op.add.v) ELSE 0)
    + (IF op.note.some THEN Len(op.note.v) ELSE 0)

\* ids an Add has assigned: those of the entries after the loaded ones
NewIds(pre, post) == {post[k].id : k \in (Len(pre) + 1)..Len(post)}

\* ------------------------------------------------- one handler, start to end
\* the largest id assigned so far, after an Add that made post of pre
Assigned(pre, post, hi) ==
  IF NewIds(pre, post) = {} THEN hi ELSE Max(NewIds(pre, post) \cup {hi})

\* the handler has run from the stored collection pre to its return r
Returned(op, track, pre, r) ==
  /\ fs' = r.fs
  /\ last' = [ok |-> r.p.pc = "ok", op |-> op, pre |-> pre, hi |-> hist]
  /\ hist' = IF track /\ r.p.pc = "ok" /\ op.kind = "add"
             THEN Assigned(pre, Stored(r.fs), hist)
             ELSE hist
  /\ UNCHANGED <<procs, shown, main>>

\* main calls the handler, which runs to its return; track says whether the
\* specification keeps hist
Handle(op, track) == Returned(op, track, Stored(fs), Run(fs, Started(op)))

\* the entries that may still be added to tasks
Room(tasks, maxEntries, maxId) ==
  Min(maxEntries - Len(tasks), maxId - BaseId(tasks))

\* main, lines 33-37: new_entry(&args), with texts that fit a store of
\* maxEntries entries and ids up to maxId
NewEntryOf(taskLists, noteLists, priorities, instants, maxEntries, maxId, track) ==
  \E tl \in taskLists \cup {<<>>}, nl \in noteLists \cup {<<>>} :
    /\ Len(tl) + Len(nl) >= 1
    /\ Len(tl) + Len(nl) <= Room(Stored(fs), maxEntries, maxId)
    /\ \E priority \in priorities,
          stamps \in [1..(Len(tl) + Len(nl)) -> instants] :
         Handle(Op("add", Listed(tl), Listed(nl), priority, <<>>, stamps),
                track)

\* main, lines 38-42: delete_entry(&args.delete.unwrap())
DeleteEntryOf(idLists, track) ==
  \E ids \in idLists : Handle(Op("delete", None, None, None, ids, <<>>), track)

\* main, lines 43-48: alter_tasks(&args.begin.unwrap(), State::Started)
BeginTasksOf(idLists, track) ==
  \E ids \in idLists : Handle(Op("begin", None, None, None, ids, <<>>), track)

\* main, lines 49-53: alter_tasks(&args.check.unwrap(), State::Completed)
CheckTasksOf(idLists, track) ==
  \E ids \in idLists : Handle(Op("check", None, None, None, ids, <<>>), track)

\* main, lines 54-58: remove_completed()
RemoveCompletedOf(track) ==
  Handle(Op("tidy", None, None, None, <<>>, <<>>), track)

\* main, lines 59-63: make_ids_sequential()
MakeIdsSequential == Handle(Op("reset", None, None, None, <<>>, <<>>), FALSE)

\* display_content, lines 74-78: the tasks it may go on with after
\* state_file_contents() has given l, or the error it returns
Displayed(l, sort) ==
  IF ~l.ok THEN {[ok |-> FALSE, tasks |-> <<>>, sort |-> sort]}
  ELSE IF sort.some
       THEN {[ok |-> TRUE, tasks |-> t, sort |-> sort] :
               t \in OrderTasks(l.tasks, sort.v)}
       ELSE {[ok |-> TRUE, tasks |-> l.tasks, sort |-> sort]}

\* display_content has read the store, which held pre, and presents s
Presented(pre, l, s) ==
  /\ fs' = Reclaim(l.fs, {})
  /\ shown' = s
  /\ last' = [ok |-> s.ok, op |-> Op("show", None, None, None, <<>>, <<>>),
              pre |-> pre, hi |-> hist]
  /\ UNCHANGED <<procs, hist, main>>

\* main, lines 64-66: display_content(&config, args.sort.as_ref())
DisplayContentOf(sorts) ==
  \E sort \in sorts :
    \E s \in Displayed(StateFileContents(fs, {}), sort) :
      Presented(Stored(fs), StateFileContents(fs, {}), s)

\* args.sort
SortArgs == {None, Some("age"), Some("priority")}

\* ----------------------------------- Spec: the six mutations, one at a time
NewEntry == NewEntryOf(Texts, {}, {None}, {100}, MaxEntries, MaxId, FALSE)

DeleteEntry == DeleteEntryOf(IdLists, FALSE)

BeginTasks == BeginTasksOf(IdLists, FALSE)

CheckTasks == CheckTasksOf(IdLists, FALSE)

RemoveCompleted == RemoveCompletedOf(FALSE)

Next ==
  \/ NewEntry
  \/ DeleteEntry
  \/ BeginTasks
  \/ CheckTasks
  \/ RemoveCompleted
  \/ MakeIdsSequential

Spec == Init /\ [][Next]_vars

\* ------------------ SpecIds: the mutations but Renumber, with hist kept
NewEntryIds == NewEntryOf(Texts, {}, {None}, {100}, MaxEntries, MaxId, TRUE)

DeleteEntryIds == DeleteEntryOf(SingleIds(MaxId), TRUE)

BeginTasksIds == BeginTasksOf(SingleIds(MaxId), TRUE)

CheckTasksIds == CheckTasksOf(SingleIds(MaxId), TRUE)

RemoveCompletedIds == RemoveCompletedOf(TRUE)

NextIds ==
  \/ NewEntryIds
  \/ DeleteEntryIds
  \/ BeginTasksIds
  \/ CheckTasksIds
  \/ RemoveCompletedIds

SpecIds == Init /\ [][NextIds]_vars

\* ------------------------- SpecAdd: task and note batches, and deletions
NewEntryAdd ==
  NewEntryOf({<<Text>>, <<Plain, Text>>, <<Plain, Text, Text>>},
             {<<Plain>>},
             {None}, {100}, AddMaxEntries, AddMaxId, FALSE)

DeleteEntryAdd == DeleteEntryOf(SingleIds(2), FALSE)

NextAdd ==
  \/ NewEntryAdd
  \/ DeleteEntryAdd

SpecAdd == Init /\ [][NextAdd]_vars

\* ------------------------------- SpecPrio: Adds with supplied priorities
\* args.priority: absent, or one to three of low / high
PriorityArgs == {None} \cup {Some(v) : v \in SeqsUpTo({"low", "high"}, 1, 3)}

NewEntryPrio ==
  NewEntryOf(Texts, Texts, PriorityArgs, {100}, PrioMaxEntries, PrioMaxEntries,
             FALSE)

NextPrio == NewEntryPrio

SpecPrio == Init /\ [][NextPrio]_vars

\* ---------- SpecFlags: tasks and notes with priorities, and all mutations
\* strings given to --begin / --check in SpecFlags: one id, one id twice,
\* two ids
FlagIdLists ==
  {<<(<<"1">>)>>, <<(<<"2">>)>>, <<(<<"1">>), (<<"1">>)>>,
   <<(<<"2">>), (<<"1">>)>>}

\* a task, a note, or both, the first of them with priority High
NewEntryFlags ==
  NewEntryOf({<<Text>>}, {<<Plain>>}, {Some(<<"high">>)}, {100},
             FlagsMaxEntries, FlagsMaxEntries + 1, FALSE)

DeleteEntryFlags == DeleteEntryOf(SingleIds(2), FALSE)

BeginTasksFlags == BeginTasksOf(FlagIdLists, FALSE)

CheckTasksFlags == CheckTasksOf(FlagIdLists, FALSE)

RemoveCompletedFlags == RemoveCompletedOf(FALSE)

NextFlags ==
  \/ NewEntryFlags
  \/ DeleteEntryFlags
  \/ BeginTasksFlags
  \/ CheckTasksFlags
  \/ RemoveCompletedFlags
  \/ MakeIdsSequential

SpecFlags == Init /\ [][NextFlags]_vars

\* ------------- SpecShow: tasks of all priorities and ages, and displays
\* a task of any priority
NewEntryRanked ==
  NewEntryOf({<<Text>>}, {}, {None, Some(<<"low">>), Some(<<"high">>)},
             {100}, ShowMaxEntries, ShowMaxEntries, FALSE)

\* a task created at any instant
NewEntryAged ==
  NewEntryOf({<<Text>>}, {}, {None}, Instants, ShowMaxEntries, ShowMaxEntries,
             FALSE)

DisplayContent == DisplayContentOf(SortArgs)

NextShow ==
  \/ NewEntryRanked
  \/ NewEntryAged
  \/ DisplayContent

SpecShow == Init /\ [][NextShow]_vars

\* ------------ SpecTags: one entry of any short raw text in an empty store
TagMaxLen == 3

\* a tag marker, a word character and two characters that are neither
TagChars == {"@", "a", " ", "-"}

\* the raw texts of --add: every text of up to TagMaxLen
\* characters
RawTexts == UNION {[1..n -> TagChars] : n \in 1..TagMaxLen}

\* new_entry with one raw text in an empty store
NewEntryTags ==
  NewEntryOf({<<t>> : t \in RawTexts}, {}, {None}, {100}, 1, 1, FALSE)

\* the entry is deleted again
DeleteEntryTags == DeleteEntryOf(SingleIds(1), FALSE)

NextTags ==
  \/ NewEntryTags
  \/ DeleteEntryTags

SpecTags == Init /\ [][NextTags]_vars

\* --------------------------------------- invocations that run step by step
OthersOpen(p) == UNION {OpenBy(procs[q]) : q \in Procs \ {p}}

\* the mutations that save with update_file
Saving == {"delete", "begin", "check", "tidy", "reset"}

SavingOps ==
  {Op("delete", None, None, None, ids, <<>>) :
     ids \in {<<(<<"1">>)>>, <<(<<"2">>)>>, <<(<<"1">>), (<<"2">>)>>}}
    \cup {Op(k, None, None, None, <<(<<"1">>)>>, <<>>) : k \in {"begin", "check"}}
    \cup {Op(k, None, None, None, <<>>, <<>>) : k \in {"tidy", "reset"}}

AddOps ==
  {Op("add", Some(list), None, None, <<>>, [k \in 1..Len(list) |-> 100]) :
     list \in Texts}

\* what fits a store of maxEntries entries with ids up to maxId
Fits(op, tasks, maxEntries, maxId) ==
  /\ Len(tasks) + Created(op) <= maxEntries
  /\ BaseId(tasks) + Created(op) <= maxId

\* a command line is run: main starts the handler
Invoke(p, ops, maxEntries, maxId) ==
  /\ procs[p].pc \in {"idle", "ok", "err", "crashed"}
  /\ \E op \in ops :
       /\ Fits(op, Stored(fs), maxEntries, maxId)
       /\ procs' = [procs EXCEPT ![p] = Started(op)]
  /\ UNCHANGED <<fs, last, hist, shown, main>>

\* the step of process p has given r
Taken(p, r) ==
  /\ fs' = r.fs
  /\ procs' = [procs EXCEPT ![p] = r.p]
  /\ UNCHANGED <<last, hist, shown, main>>

\* the process takes the step its pc names
Takes(p, pc) ==
  /\ procs[p].pc = pc
  /\ Taken(p, Step(fs, procs[p], OthersOpen(p)))

StateFileStep(p) == Takes(p, "state_file")

EntryAdderStep(p, maxEntries, maxId) ==
  /\ \/ Fits(procs[p].op, Stored(fs), maxEntries, maxId)
     \/ ~FromStr(Canonical(fs)).ok
  /\ Takes(p, "entry_adder")

LoadStep(p) == Takes(p, "load")

OpenTempStep(p) == Takes(p, "open_temp")

WriteStep(p) == Takes(p, "write")

RenameStep(p) == Takes(p, "rename")

\* the process dies (killed, power loss, a panic of write_to_file's unwrap):
\* its descriptor is closed, the files stay as they are
Crash(p) ==
  /\ ~Finished(procs[p])
  /\ procs[p].pc \notin {"idle", "crashed"}
  /\ procs' = [procs EXCEPT ![p] = [procs[p] EXCEPT !.pc = "crashed", !.fd = 0,
                                                    !.pos = 0, !.buf = <<>>,
                                                    !.vd = <<>>]]
  /\ fs' = Reclaim(fs, OthersOpen(p))
  /\ UNCHANGED <<last, hist, shown, main>>

\* ------------- SpecCrash: one invocation at a time, which may die at any step
InvokeAlone == Invoke(1, SavingOps \cup AddOps, MaxEntries, MaxId)

StateFileAlone == StateFileStep(1)

EntryAdderAlone == EntryAdderStep(1, MaxEntries, MaxId)

LoadAlone == LoadStep(1)

OpenTempAlone == OpenTempStep(1)

WriteAlone == WriteStep(1)

RenameAlone == RenameStep(1)

CrashAlone == Crash(1)

NextCrash ==
  \/ InvokeAlone
  \/ StateFileAlone
  \/ EntryAdderAlone
  \/ LoadAlone
  \/ OpenTempAlone
  \/ WriteAlone
  \/ RenameAlone
  \/ CrashAlone

SpecCrash == Init /\ [][NextCrash]_vars

\* ------------------------- SpecRace: two invocations that run concurrently
\* process 1 adds or saves, process 2 saves
InvokeFirst ==
  Invoke(1, {Op("add", Some(<<Text>>), None, None, <<>>, <<100>>),
             Op("delete", None, None, None, <<(<<"1">>)>>, <<>>)},
         RaceMaxEntries, RaceMaxEntries + 1)

InvokeSecond ==
  Invoke(2, {Op("check", None, None, None, <<(<<"1">>)>>, <<>>),
             Op("tidy", None, None, None, <<>>, <<>>)},
         RaceMaxEntries, RaceMaxEntries + 1)

StateFileRace == StateFileStep(1)

EntryAdderRace == EntryAdderStep(1, RaceMaxEntries, RaceMaxEntries + 1)

LoadRace == \E p \in Procs : LoadStep(p)

OpenTempRace == \E p \in Procs : OpenTempStep(p)

WriteRace == \E p \in Procs : WriteStep(p)

RenameRace == \E p \in Procs : RenameStep(p)

NextRace ==
  \/ InvokeFirst
  \/ InvokeSecond
  \/ StateFileRace
  \/ EntryAdderRace
  \/ LoadRace
  \/ OpenTempRace
  \/ WriteRace
  \/ RenameRace

SpecRace == Init /\ [][NextRace]_vars

\* ------------------- SpecMain: main runs the requested actions one by one
\* env is what the invocation finds: "fine", or "locked" when .utd.json
\* cannot be opened (no permission).  ran lists the actions main has called.
\*
\* what a handler called by main ends in: "ok" (it returned Ok), "err" (it
\* returned Err, which main logs) or "panic" (an unwrap failed: the process
\* is gone).  When the store cannot be opened, new_entry returns the error of
\* state_file(..)? and the others panic in state_file_contents' unwrap.
Ended(r) == [fs |-> r.fs, res |-> r.p.pc]

HandlerOutcome(op, env, f) ==
  IF env = "fine" THEN Ended(Run(f, Started(op)))
  ELSE [fs |-> f, res |-> IF op.kind = "add" THEN "err" ELSE "panic"]

\* main has called the handler of this stage, which found pre and ended in o
Acted(stage, next, pre, o) ==
  /\ fs' = o.fs
  /\ main' = [main EXCEPT
                !.stage = IF o.res = "panic" THEN "panicked" ELSE next,
                !.ran = Append(@, [pre |-> pre, post |-> Stored(o.fs),
                                   stage |-> stage, res |-> o.res])]
  /\ UNCHANGED <<procs, last, hist, shown>>

\* one `if args.x.is_some() { if let Err(e) = handler(..) { error!(..) } }`
\* of main
MainStage(stage, next, requested, op) ==
  /\ main.stage = stage
  /\ IF requested
     THEN Acted(stage, next, Stored(fs), HandlerOutcome(op, main.env, fs))
     ELSE /\ main' = [main EXCEPT !.stage = next]
          /\ UNCHANGED <<fs, procs, last, hist, shown>>

\* the op of the new_entry that args asks for; every clock reading is 100
AddOp(args) ==
  Op("add", args.add, args.note, args.priority, <<>>,
     [k \in 1..((IF args.add.some THEN Len(args.add.v) ELSE 0)
                  + (IF args.note.some THEN Len(args.note.v) ELSE 0)) |-> 100])

\* the command lines of SpecMain
MainArgs ==
  {[priority |-> None, sort |-> None, add |-> a, note |-> None, delete |-> d,
    begin |-> b, check |-> c, tidy |-> t, re_set_ids |-> r] :
     a \in {None, Some(<<Text>>)},
     d \in {None, Some(<<(<<"1">>)>>), Some(<<(<<"x">>)>>)},
     b \in {None, Some(<<(<<"2">>)>>)},
     c \in {None, Some(<<(<<"1">>)>>)},
     t \in BOOLEAN, r \in BOOLEAN}

\* main, lines 26-31: the command line is parsed
MainStart ==
  /\ main.stage = "idle"
  /\ \E args \in MainArgs, env \in {"fine", "locked"} :
       /\ Fits(AddOp(args), Stored(fs), MainMaxEntries, MainMaxEntries + 1)
       /\ main' = [args |-> args, stage |-> "new_entry", env |-> env,
                   ran |-> <<>>]
  /\ UNCHANGED <<fs, procs, last, hist, shown>>

\* main, lines 33-37
MainNewEntry ==
  MainStage("new_entry", "delete_entry",
            main.args.note.some \/ main.args.add.some, AddOp(main.args))

\* main, lines 38-42
MainDeleteEntry ==
  MainStage("delete_entry", "begin", main.args.delete.some,
            Op("delete", None, None, None, main.args.delete.v, <<>>))

\* main, lines 43-48
MainBegin ==
  MainStage("begin", "check", main.args.begin.some,
            Op("begin", None, None, None, main.args.begin.v, <<>>))

\* MainCheck that goes on with make_ids_sequential: remove_completed is
\* passed over
MainCheckSkipsTidy ==
  MainStage("check", "re_set_ids", main.args.check.some,
            Op("check", None, None, None, main.args.check.v, <<>>))

\* main, lines 49-53
MainCheck ==
  MainStage("check", "tidy", main.args.check.some,
            Op("check", None, None, None, main.args.check.v, <<>>))

\* main, lines 54-58
MainTidy ==
  MainStage("tidy", "re_set_ids", main.args.tidy,
            Op("tidy", None, None, None, <<>>, <<>>))

\* main, lines 59-63
MainReSetIds ==
  MainStage("re_set_ids", "display_content", main.args.re_set_ids,
            Op("reset", None, None, None, <<>>, <<>>))

\* display_content has read the store, which held pre, and ends in s
MainPresented(pre, l, s) ==
  /\ fs' = Reclaim(l.fs, {})
  /\ main' = [main EXCEPT
                !.stage = "exit",
                !.ran = Append(@, [pre |-> pre, post |-> s.tasks,
                                   stage |-> "display_content",
                                   res |-> IF s.ok THEN "ok" ELSE "err"])]
  /\ UNCHANGED <<procs, last, hist, shown>>

\* main, lines 64-66: display_content, which panics in
\* state_file_contents' unwrap when the store cannot be opened
MainDisplayContent ==
  /\ main.stage = "display_content"
  /\ IF main.env = "fine"
     THEN \E s \in Displayed(StateFileContents(fs, {}), main.args.sort) :
            MainPresented(Stored(fs), StateFileContents(fs, {}), s)
     ELSE Acted("display_content", "exit", Stored(fs),
                [fs |-> fs, res |-> "panic"])

\* main, line 67: Ok(()) is returned, or the panic has unwound: the process
\* has ended
MainExit ==
  /\ main.stage \in {"exit", "panicked"}
  /\ main' = NoMain
  /\ UNCHANGED <<fs, procs, last, hist, shown>>

NextMain ==
  \/ MainStart
  \/ MainNewEntry
  \/ MainDeleteEntry
  \/ MainBegin
  \/ MainCheck
  \/ MainTidy
  \/ MainReSetIds
  \/ MainDisplayContent
  \/ MainExit

SpecMain == Init /\ [][NextMain]_vars

\* ================================================================= claims
IdsOf(tasks) == [k \in 1..Len(tasks) |-> tasks[k].id]

\* an optional sign and then one or more decimal digits
IsNumeric(s) ==
  \E d \in 1..Len(s) :
    /\ d <= 2
    /\ d = 2 => s[1] \in {"+", "-"}
    /\ \A k \in d..Len(s) : s[k] \in {"0", "1", "2", "3", "4", "5", "6", "7", "8", "9"}

RECURSIVE Pow10(_)
Pow10(n) == IF n = 0 THEN 1 ELSE 10 * Pow10(n - 1)

\* the number a numeric string denotes
Denotes(s) ==
  LET d == IF s[1] \in {"+", "-"} THEN 2 ELSE 1
      digit(c) == CASE c = "0" -> 0 [] c = "1" -> 1 [] c = "2" -> 2
                    [] c = "3" -> 3 [] c = "4" -> 4 [] c = "5" -> 5
                    [] c = "6" -> 6 [] c = "7" -> 7 [] c = "8" -> 8
                    [] c = "9" -> 9
      RECURSIVE sum(_)
      sum(k) == IF k > Len(s) THEN 0
                ELSE digit(s[k]) * Pow10(Len(s) - k) + sum(k + 1)
  IN IF s[1] = "-" THEN 0 - sum(d) ELSE sum(d)

AllNumeric(ids) == \A k \in 1..Len(ids) : IsNumeric(ids[k])

\* C5: all ids of the persisted collection are pairwise distinct
IdsUnique ==
  \A i, j \in 1..Len(Stored(fs)) :
    i # j => Stored(fs)[i].id # Stored(fs)[j].id

\* an Add has put an entry behind one whose id is above its position
IdsUniqueWitness ==
  /\ last.op.kind = "add"
  /\ last.ok
  /\ Len(last.pre) >= 1
  /\ last.pre[Len(last.pre)].id > Len(last.pre)
  /\ Len(Stored(fs)) > Len(last.pre)

\* C9: a Delete whose ids are all numeric succeeds and persists exactly the
\* loaded entries whose id is none of them, in order and unchanged
DeleteKeepsTheRest ==
  (last.op.kind = "delete" /\ AllNumeric(last.op.ids)) =>
    /\ last.ok
    /\ Stored(fs) =
         SelectSeq(last.pre,
                   LAMBDA t : \A k \in 1..Len(last.op.ids) :
                                t.id # Denotes(last.op.ids[k]))

\* a Delete of an id that is there and of one that is not, with an entry left
DeleteKeepsTheRestWitness ==
  /\ last.op.kind = "delete"
  /\ last.ok
  /\ Len(last.op.ids) = 2
  /\ \E k \in 1..2 : \A i \in 1..Len(last.pre) :
       last.pre[i].id # Denotes(last.op.ids[k])
  /\ Len(Stored(fs)) >= 1
  /\ Len(Stored(fs)) < Len(last.pre)

\* C10: a Delete, Start or Complete with an id string that is not numeric
\* returns an error and leaves the persisted collection as it was
MalformedIdAborts ==
  (last.op.kind \in {"delete", "begin", "check"} /\ ~AllNumeric(last.op.ids)) =>
    /\ ~last.ok
    /\ Stored(fs) = last.pre

\* a Delete with the id of a stored entry followed by a malformed one
MalformedIdAbortsWitness ==
  /\ last.op.kind = "delete"
  /\ Len(last.op.ids) = 2
  /\ IsNumeric(last.op.ids[1])
  /\ ~IsNumeric(last.op.ids[2])
  /\ \E i \in 1..Len(last.pre) : last.pre[i].id = Denotes(last.op.ids[1])
  /\ ~last.ok
  /\ Stored(fs) = last.pre

\* the texts of an Add in the order its entries are created
Inputs(op) ==
  (IF op.add.some THEN op.add.v ELSE <<>>)
    \o (IF op.note.some THEN op.note.v ELSE <<>>)

TaskCount(op) == IF op.add.some THEN Len(op.add.v) ELSE 0

\* the largest id of a collection, 0 for the empty one
Largest(tasks) ==
  IF tasks = <<>> THEN 0
  ELSE CHOOSE m \in {tasks[k].id : k \in 1..Len(tasks)} :
         \A k \in 1..Len(tasks) : tasks[k].id <= m

\* C6: an Add keeps the loaded entries and appends one entry per text, the
\* tasks and then the notes in input order, with the ids base+1, base+2, ...
\* where base is the largest loaded id, or 0
AddNumbersFromBase ==
  (last.op.kind = "add" /\ last.ok) =>
    LET pre == last.pre
        post == Stored(fs)
        in == Inputs(last.op)
    IN /\ Len(post) = Len(pre) + Len(in)
       /\ SubSeq(post, 1, Len(pre)) = pre
       /\ \A k \in 1..Len(in) :
            /\ post[Len(pre) + k].id = Largest(pre) + k
            /\ post[Len(pre) + k].is_task = (k <= TaskCount(last.op))
            /\ Head(post[Len(pre) + k].name) = Head(in[k])
       /\ \A i, j \in (Len(pre) + 1)..Len(post) : i # j => post[i].id # post[j].id

\* to the ids 1,2,3 an Add of a task and a note has added 4 and 5
AddNumbersFromBaseWitness ==
  /\ last.op.kind = "add"
  /\ last.ok
  /\ last.op.add.some /\ last.op.note.some
  /\ IdsOf(last.pre) = <<1, 2, 3>>
  /\ IdsOf(Stored(fs)) = <<1, 2, 3, 4, 5>>

\* C7 as stated: an id an Add assigns is above every id an earlier Add has
\* assigned
IdsNeverReused ==
  (last.op.kind = "add" /\ last.ok) =>
    \A id \in NewIds(last.pre, Stored(fs)) : id > last.hi

\* C7 amended: an id an Add assigns is above every id of the collection it
\* loaded, and the ids of one Add rise in input order
IdsAboveLoaded ==
  (last.op.kind = "add" /\ last.ok) =>
    LET pre == last.pre
        post == Stored(fs)
    IN /\ \A k \in (Len(pre) + 1)..Len(post) :
            \A i \in 1..Len(pre) : post[k].id > pre[i].id
       /\ \A j, k \in (Len(pre) + 1)..Len(post) :
            j < k => post[j].id < post[k].id

\* an Add has handed out an id again that an earlier Add had assigned
IdsAboveLoadedWitness ==
  /\ last.op.kind = "add"
  /\ last.ok
  /\ Len(last.pre) >= 1
  /\ \E id \in NewIds(last.pre, Stored(fs)) : id <= last.hi

\* the priorities given to an Add, none when the flag is absent
Supplied(op) == IF op.priority.some THEN op.priority.v ELSE <<>>

\* C8: the k-th entry an Add creates, tasks before notes, has the k-th
\* supplied priority, and Normal when fewer than k were supplied
PrioritiesInCreationOrder ==
  (last.op.kind = "add" /\ last.ok) =>
    LET pre == last.pre
        post == Stored(fs)
        in == Inputs(last.op)
    IN /\ Len(post) = Len(pre) + Len(in)
       /\ \A k \in 1..Len(in) :
            /\ post[Len(pre) + k].is_task = (k <= TaskCount(last.op))
            /\ post[Len(pre) + k].priority =
                 IF k <= Len(Supplied(last.op)) THEN Supplied(last.op)[k]
                 ELSE "normal"

\* one task and two notes with two priorities: the task has the first, the
\* first note the second, the second note Normal
PrioritiesInCreationOrderWitness ==
  /\ last.op.kind = "add"
  /\ last.ok
  /\ TaskCount(last.op) = 1
  /\ Len(Inputs(last.op)) = 3
  /\ Supplied(last.op) = <<"high", "low">>
  /\ LET post == Stored(fs)
         n == Len(last.pre)
     IN /\ Len(post) = n + 3
        /\ post[n + 1].priority = "high"
        /\ post[n + 2].priority = "low"
        /\ post[n + 3].priority = "normal"

\* how often the id is listed
Times(ids, id) == Cardinality({k \in 1..Len(ids) : Denotes(ids[k]) = id})

\* post is pre with every entry listed n > 0 times flipped n times and not
\* done, and the others as they were
Toggled(pre, ids, post) ==
  /\ Len(post) = Len(pre)
  /\ \A k \in 1..Len(pre) :
       post[k] =
         IF Times(ids, pre[k].id) = 0 THEN pre[k]
         ELSE [pre[k] EXCEPT
                 !.in_progress =
                   (pre[k].in_progress = (Times(ids, pre[k].id) % 2 = 0)),
                 !.is_done = FALSE]

\* C11: a Start flips in_progress of every listed entry once per occurrence
\* of its id, clears its is_done and leaves the other entries as they were;
\* a second Start of the same single id gives in_progress back the value it
\* had before the first, with is_done false after both
StartToggles ==
  [][(last'.op.kind = "begin" /\ last'.ok) =>
       /\ Toggled(last'.pre, last'.op.ids, Stored(fs'))
       /\ (last.op.kind = "begin" /\ last.ok /\ last.op.ids = last'.op.ids
             /\ Len(last.op.ids) = 1) =>
            /\ Len(Stored(fs')) = Len(last.pre)
            /\ \A k \in 1..Len(last.pre) :
                 /\ Stored(fs')[k].in_progress = last.pre[k].in_progress
                 /\ Times(last.op.ids, last.pre[k].id) > 0 =>
                      (~Stored(fs)[k].is_done /\ ~Stored(fs')[k].is_done)]_vars

\* a Start that lists the id of a completed entry twice, with another entry
\* in progress that it does not list
StartTogglesWitness ==
  /\ last.op.kind = "begin"
  /\ last.ok
  /\ \E k, j \in 1..Len(last.pre) :
       /\ Times(last.op.ids, last.pre[k].id) = 2
       /\ last.pre[k].is_done
       /\ ~Stored(fs)[k].is_done
       /\ ~Stored(fs)[k].in_progress
       /\ Times(last.op.ids, last.pre[j].id) = 0
       /\ Stored(fs)[j].in_progress

\* post is pre with every listed entry done and not in progress, and the
\* others as they were
Completed(pre, ids, post) ==
  /\ Len(post) = Len(pre)
  /\ \A k \in 1..Len(pre) :
       post[k] =
         IF Times(ids, pre[k].id) = 0 THEN pre[k]
         ELSE [pre[k] EXCEPT !.in_progress = FALSE, !.is_done = TRUE]

\* C12: a Complete makes every listed entry done and not in progress,
\* whatever it was, and leaves the other entries as they were; a second
\* Complete of the same ids persists the collection the first persisted
CompleteIsIdempotent ==
  [][(last'.op.kind = "check" /\ last'.ok) =>
       /\ Completed(last'.pre, last'.op.ids, Stored(fs'))
       /\ (last.op.kind = "check" /\ last.ok /\ last.op.ids = last'.op.ids) =>
            Stored(fs') = Stored(fs)]_vars

\* a Complete of an entry in progress, with another entry that it does not
\* list and that is not done
CompleteIsIdempotentWitness ==
  /\ last.op.kind = "check"
  /\ last.ok
  /\ \E k, j \in 1..Len(last.pre) :
       /\ Times(last.op.ids, last.pre[k].id) > 0
       /\ last.pre[k].in_progress
       /\ Stored(fs)[k].is_done
       /\ ~Stored(fs)[k].in_progress
       /\ Times(last.op.ids, last.pre[j].id) = 0
       /\ ~Stored(fs)[j].is_done

\* C13: no note of the persisted collection is in progress
NotesNeverInProgress ==
  \A k \in 1..Len(Stored(fs)) :
    ~Stored(fs)[k].is_task => ~Stored(fs)[k].in_progress

\* C14: a Tidy persists the loaded entries that are not done, tasks and
\* notes alike, in their order and unchanged; no persisted entry is done
\* after it
TidyKeepsTheOpen ==
  (last.op.kind = "tidy") =>
    /\ last.ok
    /\ Stored(fs) = SelectSeq(last.pre, LAMBDA t : ~t.is_done)
    /\ \A k \in 1..Len(Stored(fs)) : ~Stored(fs)[k].is_done

\* a Tidy of two done entries, one of them a note, and one that is not done
TidyKeepsTheOpenWitness ==
  /\ last.op.kind = "tidy"
  /\ last.ok
  /\ Len(last.pre) = 3
  /\ last.pre[1].is_done /\ last.pre[2].is_done /\ ~last.pre[3].is_done
  /\ \E k \in 1..2 : ~last.pre[k].is_task
  /\ Stored(fs) = <<last.pre[3]>>

\* C15: a Renumber persists the loaded entries in their order, the k-th with
\* id k and nothing else changed
RenumberIsSequential ==
  (last.op.kind = "reset") =>
    /\ last.ok
    /\ Len(Stored(fs)) = Len(last.pre)
    /\ \A k \in 1..Len(last.pre) :
         Stored(fs)[k] = [last.pre[k] EXCEPT !.id = k]
    /\ IdsOf(Stored(fs)) = [k \in 1..Len(last.pre) |-> k]

\* a Renumber of the ids 1 and 3, left after the deletion of 2
RenumberIsSequentialWitness ==
  /\ last.op.kind = "reset"
  /\ last.ok
  /\ IdsOf(last.pre) = <<1, 3>>
  /\ IdsOf(Stored(fs)) = <<1, 2>>
  /\ last.pre[2].is_task # last.pre[1].is_task

\* C16: a display step, sorted or not, leaves the contents of the canonical
\* file as they were
SortNeverPersists ==
  [][last'.op.kind = "show" => Canonical(fs') = Canonical(fs)]_vars

\* a sorted display has presented the entries in another order than the
\* file's, and the file holds what it held
SortNeverPersistsWitness ==
  /\ last.op.kind = "show"
  /\ shown.ok
  /\ shown.sort.some
  /\ shown.tasks # last.pre
  /\ Stored(fs) = last.pre

\* s holds the entries of t, each as often as t does
IsPermutation(s, t) ==
  /\ Len(s) = Len(t)
  /\ \A k \in 1..Len(s) :
       Cardinality({i \in 1..Len(s) : s[i] = s[k]})
         = Cardinality({i \in 1..Len(t) : t[i] = s[k]})

\* Low, Normal, High as 1, 2, 3
Score(t) == IF t.priority = "high" THEN 3 ELSE IF t.priority = "low" THEN 1 ELSE 2

\* C17: a sorted display presents a permutation of the persisted collection:
\* for Age oldest first, for Priority every High before every Normal before
\* every Low
OrderByCriterion ==
  (last.op.kind = "show" /\ shown.ok /\ shown.sort.some) =>
    /\ IsPermutation(shown.tasks, Stored(fs))
    /\ \A i, j \in 1..Len(shown.tasks) :
         i < j =>
           IF shown.sort.v = "age"
           THEN shown.tasks[i].timestamp <= shown.tasks[j].timestamp
           ELSE Score(shown.tasks[i]) >= Score(shown.tasks[j])

\* the priorities Low, High, Normal, created in that order, are presented as
\* High, Normal, Low
OrderByCriterionWitness ==
  /\ last.op.kind = "show"
  /\ shown.ok
  /\ shown.sort = Some("priority")
  /\ [k \in 1..Len(Stored(fs)) |-> Stored(fs)[k].priority]
       = <<"low", "high", "normal">>
  /\ [k \in 1..Len(shown.tasks) |-> shown.tasks[k].priority]
       = <<"high", "normal", "low">>

\* the actions a command line requests, in the order of main
Requested(args) ==
  (IF args.add.some \/ args.note.some THEN <<"new_entry">> ELSE <<>>)
    \o (IF args.delete.some THEN <<"delete_entry">> ELSE <<>>)
    \o (IF args.begin.some THEN <<"begin">> ELSE <<>>)
    \o (IF args.check.some THEN <<"check">> ELSE <<>>)
    \o (IF args.tidy THEN <<"tidy">> ELSE <<>>)
    \o (IF args.re_set_ids THEN <<"re_set_ids">> ELSE <<>>)

\* C18: when an invocation has ended, main has called every requested action
\* in turn and the display step last, whatever failed, and every failure was
\* an error that main caught
BestEffort ==
  (main.stage \in {"exit", "panicked"}) =>
    /\ [k \in 1..Len(main.ran) |-> main.ran[k].stage]
         = Requested(main.args) \o <<"display_content">>
    /\ \A k \in 1..Len(main.ran) : main.ran[k].res # "panic"

\* what an entry is created with, but its id
Created0(t) == <<t.name, t.tags, t.is_task, t.priority, t.timestamp>>

\* C19: whatever mutation has run, every entry it leaves in the persisted
\* collection has the title, tags, is_task, priority and creation instant
\* it had before: at its position after a Start, Complete, Renumber or Add,
\* under its id after a Delete or Tidy
CreationFieldsKept ==
  (last.op.kind \in {"add", "delete", "begin", "check", "tidy", "reset"}) =>
    LET pre == last.pre
        post == Stored(fs)
    IN IF last.op.kind \in {"delete", "tidy"}
       THEN \A k \in 1..Len(post) :
              \E i \in 1..Len(pre) :
                pre[i].id = post[k].id /\ Created0(pre[i]) = Created0(post[k])
       ELSE /\ Len(post) >= Len(pre)
            /\ last.op.kind # "add" => Len(post) = Len(pre)
            /\ \A k \in 1..Len(pre) : Created0(post[k]) = Created0(pre[k])

\* a Complete of an entry of priority High, which it still has
CreationFieldsKeptWitness ==
  /\ last.op.kind = "check"
  /\ last.ok
  /\ \E k \in 1..Len(last.pre) :
       /\ Times(last.op.ids, last.pre[k].id) > 0
       /\ last.pre[k].priority = "high"
       /\ ~last.pre[k].is_done
       /\ Stored(fs)[k].is_done
       /\ Stored(fs)[k].priority = "high"

RECURSIVE AtWords(_, _)
\* the leftmost non-overlapping matches, from index i on, of "@" followed by
\* one or more word characters, each as <<first, last>>
AtWords(s, i) ==
  IF i > Len(s) THEN <<>>
  ELSE IF i + 1 <= Len(s) /\ s[i] = "@" /\ IsWord(s[i + 1])
       THEN <<(<<i, WordRunEnd(s, i + 1)>>)>>
              \o AtWords(s, WordRunEnd(s, i + 1) + 1)
       ELSE AtWords(s, i + 1)

\* the raw text of an Add of one entry
RawText(op) == IF op.add.some THEN op.add.v[1] ELSE op.note.v[1]

\* the entry made from raw has the "@" words of raw as tags and raw with
\* each of them replaced by one space as title
ExtractsAtWords(raw, t) ==
  /\ t.tags = JoinTags(raw, AtWords(raw, 1))
  /\ t.name = ReplaceAll(raw, AtWords(raw, 1), 1)

\* C20: the entry an Add makes from a raw text has as tags the matches, in
\* order and joined by single spaces, of "@" followed by one or more word
\* characters, and as title the text with each match replaced by one space:
\* "@a" is a tag, and an "@" that no word character follows stays in the
\* title and gives no tag
TagsAreAtWords ==
  (last.op.kind = "add" /\ last.ok /\ Created(last.op) = 1
     /\ Len(Stored(fs)) = Len(last.pre) + 1) =>
    ExtractsAtWords(RawText(last.op), Stored(fs)[Len(Stored(fs))])

\* C21: whatever Adds, Deletes, Starts, Completes, Tidies and Renumbers have
\* run, no entry of the persisted collection is both in progress and done
FlagsExclusive ==
  \A k \in 1..Len(Stored(fs)) :
    ~(Stored(fs)[k].in_progress /\ Stored(fs)[k].is_done)

\* a Start of an entry that was done: it is in progress and no longer done
FlagsExclusiveWitness ==
  /\ last.op.kind = "begin"
  /\ last.ok
  /\ \E k \in 1..Len(last.pre) :
       /\ Times(last.op.ids, last.pre[k].id) > 0
       /\ last.pre[k].is_done
       /\ Len(Stored(fs)) = Len(last.pre)
       /\ Stored(fs)[k].in_progress
       /\ ~Stored(fs)[k].is_done

\* the steps of an invocation with this command line, in the order Add,
\* Delete, Start, Complete, Tidy, Renumber, and the display
Planned(args) == Requested(args) \o <<"display_content">>

\* what the step r of an invocation with this command line has done to the
\* collection it loaded
StepDid(args, r) ==
  IF r.res # "ok" THEN r.post = r.pre
  ELSE CASE r.stage = "new_entry" ->
              /\ Len(r.post) = Len(r.pre) + Created(AddOp(args))
              /\ SubSeq(r.post, 1, Len(r.pre)) = r.pre
         [] r.stage = "delete_entry" ->
              r.post = SelectSeq(r.pre,
                                 LAMBDA t : Times(args.delete.v, t.id) = 0)
         [] r.stage = "begin" -> Toggled(r.pre, args.begin.v, r.post)
         [] r.stage = "check" -> Completed(r.pre, args.check.v, r.post)
         [] r.stage = "tidy" ->
              r.post = SelectSeq(r.pre, LAMBDA t : ~t.is_done)
         [] r.stage = "re_set_ids" ->
              /\ Len(r.post) = Len(r.pre)
              /\ IdsOf(r.post) = [k \in 1..Len(r.pre) |-> k]
         [] r.stage = "display_content" -> r.post = r.pre

\* C22: the steps an invocation has taken are the first of the requested
\* ones in the order Add, Delete, Start, Complete, Tidy, Renumber, all of
\* them and the display when it has returned; each step loads what the step
\* before it left and acts on the ids found there, so that Delete, Start and
\* Complete see the ids after the Add and before the Renumber, a Tidy
\* removes what the Complete before it has completed, and the Renumber
\* numbers what Delete and Tidy have left
FixedOrder ==
  /\ Len(main.ran) <= Len(Planned(main.args))
  /\ [k \in 1..Len(main.ran) |-> main.ran[k].stage]
       = SubSeq(Planned(main.args), 1, Len(main.ran))
  /\ main.stage = "exit" => Len(main.ran) = Len(Planned(main.args))
  /\ \A k \in 1..Len(main.ran) : StepDid(main.args, main.ran[k])
  /\ \A k \in 1..(Len(main.ran) - 1) :
       /\ main.ran[k + 1].pre = main.ran[k].post
       /\ (main.ran[k].stage = "check" /\ main.ran[k].res = "ok"
            /\ main.ran[k + 1].stage = "tidy" /\ main.ran[k + 1].res = "ok") =>
            \A j \in 1..Len(main.ran[k + 1].post) :
              Times(main.args.check.v, main.ran[k + 1].post[j].id) = 0

\* an invocation with --add, --begin 2, --check 1, --tidy and --re-set-ids
\* on a store of one entry, of id 1, has returned: the entry it added got
\* id 2 and was started, entry 1 was completed and tidied away, and the
\* entry that is left was numbered 1
FixedOrderWitness ==
  /\ main.stage = "exit"
  /\ [k \in 1..Len(main.ran) |-> main.ran[k].stage]
       = <<"new_entry", "begin", "check", "tidy", "re_set_ids",
           "display_content">>
  /\ \A k \in 1..Len(main.ran) : main.ran[k].res = "ok"
  /\ IdsOf(main.ran[1].pre) = <<1>>
  /\ ~main.ran[1].pre[1].is_done
  /\ IdsOf(main.ran[1].post) = <<1, 2>>
  /\ IdsOf(main.ran[5].pre) = <<2>>
  /\ IdsOf(Stored(fs)) = <<1>>
  /\ Stored(fs)[1].in_progress

Whole(f) == FromStr(Canonical(f)).ok

\* C1: while and after a mutation that saves with update_file runs, also when
\* it dies at some step, the canonical file holds the complete collection
\* it loaded or the complete collection it saves
SaveIsAtomic ==
  (procs[1].op.kind \in Saving /\ procs[1].loaded) =>
    /\ Whole(fs)
    /\ Stored(fs) \in {procs[1].pre, procs[1].post}

\* C2: while an Add runs, also when it dies at some step, the canonical file
\* is never partially written
AddIsAtomic ==
  (procs[1].op.kind = "add" /\ procs[1].loaded) => Whole(fs)

\* C3: whatever the interleaving of two saving invocations, the canonical
\* file holds one complete collection and no save fails
RaceKeepsFileWhole ==
  (\A p \in Procs : procs[p].op.kind \in Saving \cup {"none"}) =>
    /\ Whole(fs)
    /\ \A p \in Procs : ~(procs[p].pc = "err" /\ procs[p].loaded)

\* both invocations have saved without error what they made of the same
\* loaded collection
BothSaved ==
  /\ \A p \in Procs :
       procs[p].op.kind \in Saving /\ procs[p].pc = "ok" /\ procs[p].loaded
  /\ procs[1].pre = procs[2].pre

\* C4: when two invocations have loaded the same collection and both have
\* saved without error, the canonical file holds what one of them made of
\* it, without the edits of the other
LastSaveWins ==
  BothSaved => (Whole(fs) /\ Stored(fs) \in {procs[1].post, procs[2].post})

\* a lost update: both have edited, differently, and one edit is missing
LastSaveWinsWitness ==
  /\ BothSaved
  /\ procs[1].post # procs[1].pre
  /\ procs[2].post # procs[2].pre
  /\ procs[1].post # procs[2].post
  /\ Stored(fs) = procs[2].post
  /\ procs[1].op.kind = "delete"
  /\ \E k \in 1..Len(Stored(fs)) : Stored(fs)[k].id = 1

====
